---- MODULE Spec2Model ----
(***************************************************************************)
(* Model of the bakery inventory canister (src/lib.rs): a durable counter  *)
(* cell ID_COUNTER, a durable ordered map STORAGE from u64 id to Product,  *)
(* and the ten exported operations.  Every handler is an operator from the *)
(* state before the call and the call's inputs to the state after it and   *)
(* the returned Result; the action of a handler applies that operator.     *)
(* Calls run one at a time (a canister message runs to completion).        *)
(***************************************************************************)
EXTENDS Integers, Sequences, FiniteSets, TLC

(* ------------------------------ bounds --------------------------------- *)

\* add_product is offered while the counter is below MaxId (ids 0..MaxId-1).
MaxId == 2
\* The clock read by time() runs over 0..MaxTime.
MaxTime == 1
\* Width of the quantity/amount integers of the model (u32 in the source).
U32Bits == 2

U32Mod == 2 ^ U32Bits
U32Max == U32Mod - 1

(* --------------------------- str::trim --------------------------------- *)

IsWhitespace(ch) == ch = " "

RECURSIVE trim_start(_)
trim_start(s) ==
    IF s = << >> THEN s
    ELSE IF IsWhitespace(Head(s)) THEN trim_start(Tail(s)) ELSE s

RECURSIVE trim_end(_)
trim_end(s) ==
    IF s = << >> THEN s
    ELSE IF IsWhitespace(s[Len(s)]) THEN trim_end(SubSeq(s, 1, Len(s) - 1)) ELSE s

trim(s) == trim_end(trim_start(s))

(* ------------------------------ values --------------------------------- *)

\* enum Category
Category == {"Bakery", "Cake", "Cookies"}

\* Option<T>: None is the empty sequence, Some(x) the one-element sequence.
None == << >>
Some(x) == << x >>

\* Names are sequences of characters: the empty name, a whitespace-only
\* name, and a name that is non-empty after trimming.
Names == { << >>, << " " >>, << " ", "a", " " >> }

\* Ids a caller may pass: the ids the counter can issue (an id is absent
\* from the map before it is issued and after it is removed).
Ids == 0 .. (MaxId - 1)

U32 == 0 .. U32Max

\* struct ProductPayload.  Payloads with a blank name or quantity 0 are
\* tried with one category and quantities 0 and 1 only.
ProductPayload ==
    { p \in [name : Names, quantity : U32, category : Category] :
        (trim_start(p.name) = << >> \/ p.quantity = 0)
            => (p.category = "Bakery" /\ p.quantity <= 1) }

\* struct StockPayload
StockPayload == [amount : U32]

(* ------------------------ StableBTreeMap ------------------------------- *)

\* The map is a function from the set of its keys to their values.
EmptyMap == [k \in {} |-> 0]

MapGet(m, k) == IF k \in DOMAIN m THEN Some(m[k]) ELSE None

MapInsert(m, k, v) == [x \in (DOMAIN m) \cup {k} |-> IF x = k THEN v ELSE m[x]]

MapRemove(m, k) == [x \in (DOMAIN m) \ {k} |-> m[x]]

MinKey(K) == CHOOSE k \in K : \A j \in K : k <= j

\* iter(): the entries <<key, value>> in ascending key order.
RECURSIVE MapIter(_)
MapIter(m) ==
    IF DOMAIN m = {} THEN << >>
    ELSE LET k == MinKey(DOMAIN m)
         IN  << << k, m[k] >> >> \o MapIter(MapRemove(m, k))

(* --------------------------- u32 arithmetic ---------------------------- *)

\* a + b on u32: with overflow checks the call panics (None), without them
\* the sum wraps.
u32_add(a, b, overflow_checks) ==
    IF a + b > U32Max
    THEN IF overflow_checks THEN None ELSE Some((a + b) % U32Mod)
    ELSE Some(a + b)

\* a - b on u32, likewise.
u32_sub(a, b, overflow_checks) ==
    IF a - b < 0
    THEN IF overflow_checks THEN None ELSE Some((a - b) % U32Mod)
    ELSE Some(a - b)

(* ------------------------------ state ---------------------------------- *)

VARIABLES
    storage,   \* STORAGE: the map id -> Product
    counter,   \* ID_COUNTER: the value of the cell
    now,       \* the clock time() reads
    ret,       \* the last call: its operation, its id and amount arguments, the kind of its result
    issued,    \* history: the ids successful add_product calls returned, in order
    removed    \* history: the ids successful remove_product calls removed

vars == << storage, counter, now, ret, issued, removed >>

(* ------------------------------ results -------------------------------- *)

\* Result<T, Error>: kind is "Ok", "NotFound" or "InvalidOperation", val is
\* Some(value) for Ok and None for an error.  A call that panics is rolled
\* back by the platform: kind "Trap", no value, the state as before.
ErrorKinds == {"NotFound", "InvalidOperation"}

(* ------------------------------ handlers ------------------------------- *)

\* Cell::set: stores value and returns Ok(previous value); when the write
\* fails the cell keeps its value and the result is an error.
CellSet(cell, value, write_ok) ==
    IF write_ok THEN [cell |-> value, kind |-> "Ok", val |-> Some(cell)]
    ELSE [cell |-> cell, kind |-> "Err", val |-> None]

\* generate_unique_id writing the value it read back into the cell.
generate_unique_id_stale(c, write_ok) ==
    LET current_value == c
        r == CellSet(c, current_value, write_ok)
    IN  IF r.kind = "Ok"
        THEN [ctr |-> r.cell, kind |-> "Ok", val |-> r.val]
        ELSE [ctr |-> r.cell, kind |-> "InvalidOperation", val |-> None]

\* generate_unique_id that advances the cell by two.
generate_unique_id_by_two(c, write_ok) ==
    LET current_value == c
        r == CellSet(c, current_value + 2, write_ok)
    IN  IF r.kind = "Ok"
        THEN [ctr |-> r.cell, kind |-> "Ok", val |-> r.val]
        ELSE [ctr |-> r.cell, kind |-> "InvalidOperation", val |-> None]

\* generate_unique_id that returns the value it wrote, not the one it read.
generate_unique_id_returns_new(c, write_ok) ==
    LET current_value == c
        r == CellSet(c, current_value + 1, write_ok)
    IN  IF r.kind = "Ok"
        THEN [ctr |-> r.cell, kind |-> "Ok", val |-> Some(r.cell)]
        ELSE [ctr |-> r.cell, kind |-> "InvalidOperation", val |-> None]

generate_unique_id(c, write_ok) ==
    LET current_value == c
        r == CellSet(c, current_value + 1, write_ok)
    IN  IF r.kind = "Ok"
        THEN [ctr |-> r.cell, kind |-> "Ok", val |-> r.val]
        ELSE [ctr |-> r.cell, kind |-> "InvalidOperation", val |-> None]

\* validate_product_payload that tests the name without trimming it.
validate_product_payload_no_trim(payload) ==
    IF payload.name = << >> THEN "InvalidOperation"
    ELSE IF payload.quantity = 0 THEN "InvalidOperation"
    ELSE "Ok"

\* validate_product_payload that does not test the quantity.
validate_product_payload_any_quantity(payload) ==
    IF trim(payload.name) = << >> THEN "InvalidOperation"
    ELSE "Ok"

validate_product_payload(payload) ==
    IF trim(payload.name) = << >> THEN "InvalidOperation"
    ELSE IF payload.quantity = 0 THEN "InvalidOperation"
    ELSE "Ok"

\* validate_stock_payload that accepts every amount.
validate_stock_payload_accepts_all(payload) == "Ok"

validate_stock_payload(payload) ==
    IF payload.amount = 0 THEN "InvalidOperation" ELSE "Ok"

_get_product(s, id) == MapGet(s, id)

get_product(s, id) ==
    LET found == _get_product(s, id)
    IN  IF found # None THEN [kind |-> "Ok", val |-> Some(found[1])]
        ELSE [kind |-> "NotFound", val |-> None]

get_stock(s, id) ==
    LET found == _get_product(s, id)
    IN  IF found # None THEN [kind |-> "Ok", val |-> Some(found[1].quantity)]
        ELSE [kind |-> "NotFound", val |-> None]

\* do_insert into a map that keeps no other entry.
do_insert_single(s, product) == MapInsert(EmptyMap, product.id, product)

do_insert(s, product) == MapInsert(s, product.id, product)

\* add_product that draws its id before validating the payload.
add_product_id_first(s, c, payload, t, write_ok) ==
    LET g == generate_unique_id(c, write_ok)
    IN  IF g.kind # "Ok"
        THEN [st |-> s, ctr |-> g.ctr, kind |-> g.kind, val |-> None]
        ELSE IF validate_product_payload(payload) # "Ok"
        THEN [st |-> s, ctr |-> g.ctr, kind |-> "InvalidOperation", val |-> None]
        ELSE LET product == [id         |-> g.val[1],
                             name       |-> payload.name,
                             category   |-> payload.category,
                             quantity   |-> payload.quantity,
                             created_at |-> t,
                             updated_at |-> None]
             IN  [st   |-> MapInsert(s, product.id, product),
                  ctr  |-> g.ctr,
                  kind |-> "Ok",
                  val  |-> Some(product)]

add_product(s, c, payload, t, write_ok) ==
    IF validate_product_payload(payload) # "Ok"
    THEN [st |-> s, ctr |-> c, kind |-> "InvalidOperation", val |-> None]
    ELSE LET g == generate_unique_id(c, write_ok)
         IN  IF g.kind # "Ok"
             THEN [st |-> s, ctr |-> g.ctr, kind |-> g.kind, val |-> None]
             ELSE LET product == [id         |-> g.val[1],
                                  name       |-> payload.name,
                                  category   |-> payload.category,
                                  quantity   |-> payload.quantity,
                                  created_at |-> t,
                                  updated_at |-> None]
                  IN  [st   |-> MapInsert(s, product.id, product),
                       ctr  |-> g.ctr,
                       kind |-> "Ok",
                       val  |-> Some(product)]

\* update_product that looks the record up before validating the payload.
update_product_lookup_first(s, id, payload, t) ==
    LET found == MapGet(s, id)
    IN  IF found = None
        THEN [st |-> s, kind |-> "NotFound", val |-> None]
        ELSE IF validate_product_payload(payload) # "Ok"
        THEN [st |-> s, kind |-> "InvalidOperation", val |-> None]
        ELSE LET product == [found[1] EXCEPT !.name = payload.name,
                                             !.category = payload.category,
                                             !.quantity = payload.quantity,
                                             !.updated_at = Some(t)]
             IN  [st |-> MapInsert(s, id, product), kind |-> "Ok", val |-> Some(product)]

\* update_product that forgets to copy the category.
update_product_keeps_category(s, id, payload, t) ==
    IF validate_product_payload(payload) # "Ok"
    THEN [st |-> s, kind |-> "InvalidOperation", val |-> None]
    ELSE LET found == MapGet(s, id)
         IN  IF found # None
             THEN LET product == [found[1] EXCEPT !.name = payload.name,
                                                  !.quantity = payload.quantity,
                                                  !.updated_at = Some(t)]
                  IN  [st |-> MapInsert(s, id, product), kind |-> "Ok", val |-> Some(product)]
             ELSE [st |-> s, kind |-> "NotFound", val |-> None]

\* update_product that also stamps created_at.
update_product_restamps_created(s, id, payload, t) ==
    IF validate_product_payload(payload) # "Ok"
    THEN [st |-> s, kind |-> "InvalidOperation", val |-> None]
    ELSE LET found == MapGet(s, id)
         IN  IF found # None
             THEN LET product == [found[1] EXCEPT !.name = payload.name,
                                                  !.category = payload.category,
                                                  !.quantity = payload.quantity,
                                                  !.created_at = t,
                                                  !.updated_at = Some(t)]
                  IN  [st |-> MapInsert(s, id, product), kind |-> "Ok", val |-> Some(product)]
             ELSE [st |-> s, kind |-> "NotFound", val |-> None]

update_product(s, id, payload, t) ==
    IF validate_product_payload(payload) # "Ok"
    THEN [st |-> s, kind |-> "InvalidOperation", val |-> None]
    ELSE LET found == MapGet(s, id)
         IN  IF found # None
             THEN LET product == [found[1] EXCEPT !.name = payload.name,
                                                  !.category = payload.category,
                                                  !.quantity = payload.quantity,
                                                  !.updated_at = Some(t)]
                  IN  [st |-> MapInsert(s, id, product), kind |-> "Ok", val |-> Some(product)]
             ELSE [st |-> s, kind |-> "NotFound", val |-> None]

\* add_quantity that does not set updated_at.
add_quantity_no_stamp(s, id, payload, t, overflow_checks) ==
    IF validate_stock_payload(payload) # "Ok"
    THEN [st |-> s, kind |-> "InvalidOperation", val |-> None]
    ELSE LET found == MapGet(s, id)
         IN  IF found # None
             THEN LET sum == u32_add(found[1].quantity, payload.amount, overflow_checks)
                  IN  IF sum = None
                      THEN [st |-> s, kind |-> "Trap", val |-> None]
                      ELSE LET product == [found[1] EXCEPT !.quantity = sum[1]]
                           IN  [st |-> do_insert(s, product), kind |-> "Ok",
                                val |-> Some(product)]
             ELSE [st |-> s, kind |-> "NotFound", val |-> None]

add_quantity(s, id, payload, t, overflow_checks) ==
    IF validate_stock_payload(payload) # "Ok"
    THEN [st |-> s, kind |-> "InvalidOperation", val |-> None]
    ELSE LET found == MapGet(s, id)
         IN  IF found # None
             THEN LET sum == u32_add(found[1].quantity, payload.amount, overflow_checks)
                  IN  IF sum = None
                      THEN [st |-> s, kind |-> "Trap", val |-> None]
                      ELSE LET product == [found[1] EXCEPT !.quantity = sum[1],
                                                           !.updated_at = Some(t)]
                           IN  [st |-> do_insert(s, product), kind |-> "Ok",
                                val |-> Some(product)]
             ELSE [st |-> s, kind |-> "NotFound", val |-> None]

\* search_by_category whose filter is inverted.
search_by_category_inverted(s, category) ==
    LET entries == SelectSeq(MapIter(s), LAMBDA e : e[2].category # category)
    IN  [i \in 1 .. Len(entries) |-> entries[i][2]]

search_by_category(s, category) ==
    LET entries == SelectSeq(MapIter(s), LAMBDA e : e[2].category = category)
    IN  [i \in 1 .. Len(entries) |-> entries[i][2]]

\* offload_quantity whose bound check is off by one.
offload_quantity_off_by_one(s, id, payload, t, overflow_checks) ==
    IF validate_stock_payload(payload) # "Ok"
    THEN [st |-> s, kind |-> "InvalidOperation", val |-> None]
    ELSE LET found == MapGet(s, id)
         IN  IF found # None
             THEN IF found[1].quantity = 0
                  THEN [st |-> s, kind |-> "InvalidOperation", val |-> None]
                  ELSE IF payload.amount > found[1].quantity + 1
                  THEN [st |-> s, kind |-> "InvalidOperation", val |-> None]
                  ELSE LET diff == u32_sub(found[1].quantity, payload.amount,
                                           overflow_checks)
                       IN  IF diff = None
                           THEN [st |-> s, kind |-> "Trap", val |-> None]
                           ELSE LET product == [found[1] EXCEPT !.quantity = diff[1],
                                                                !.updated_at = Some(t)]
                                IN  [st |-> do_insert(s, product), kind |-> "Ok",
                                     val |-> Some(product)]
             ELSE [st |-> s, kind |-> "NotFound", val |-> None]

\* offload_quantity that also rejects an amount equal to the quantity.
offload_quantity_strict(s, id, payload, t, overflow_checks) ==
    IF validate_stock_payload(payload) # "Ok"
    THEN [st |-> s, kind |-> "InvalidOperation", val |-> None]
    ELSE LET found == MapGet(s, id)
         IN  IF found # None
             THEN IF found[1].quantity = 0
                  THEN [st |-> s, kind |-> "InvalidOperation", val |-> None]
                  ELSE IF payload.amount >= found[1].quantity
                  THEN [st |-> s, kind |-> "InvalidOperation", val |-> None]
                  ELSE LET diff == u32_sub(found[1].quantity, payload.amount,
                                           overflow_checks)
                       IN  IF diff = None
                           THEN [st |-> s, kind |-> "Trap", val |-> None]
                           ELSE LET product == [found[1] EXCEPT !.quantity = diff[1],
                                                                !.updated_at = Some(t)]
                                IN  [st |-> do_insert(s, product), kind |-> "Ok",
                                     val |-> Some(product)]
             ELSE [st |-> s, kind |-> "NotFound", val |-> None]

offload_quantity(s, id, payload, t, overflow_checks) ==
    IF validate_stock_payload(payload) # "Ok"
    THEN [st |-> s, kind |-> "InvalidOperation", val |-> None]
    ELSE LET found == MapGet(s, id)
         IN  IF found # None
             THEN IF found[1].quantity = 0
                  THEN [st |-> s, kind |-> "InvalidOperation", val |-> None]
                  ELSE IF payload.amount > found[1].quantity
                  THEN [st |-> s, kind |-> "InvalidOperation", val |-> None]
                  ELSE LET diff == u32_sub(found[1].quantity, payload.amount,
                                           overflow_checks)
                       IN  IF diff = None
                           THEN [st |-> s, kind |-> "Trap", val |-> None]
                           ELSE LET product == [found[1] EXCEPT !.quantity = diff[1],
                                                                !.updated_at = Some(t)]
                                IN  [st |-> do_insert(s, product), kind |-> "Ok",
                                     val |-> Some(product)]
             ELSE [st |-> s, kind |-> "NotFound", val |-> None]

list_all_products(s) ==
    LET entries == MapIter(s)
    IN  [i \in 1 .. Len(entries) |-> entries[i][2]]

\* The keys are collected first, then removed one by one.
RECURSIVE RemoveKeys(_, _)
RemoveKeys(s, keys) ==
    IF keys = << >> THEN s
    ELSE RemoveKeys(MapRemove(s, Head(keys)), Tail(keys))

\* clear_all_products that skips the first collected key.
clear_all_products_skip_first(s) ==
    LET entries == MapIter(s)
        keys == [i \in 1 .. Len(entries) |-> entries[i][1]]
    IN  [st |-> RemoveKeys(s, IF keys = << >> THEN keys ELSE Tail(keys))]

clear_all_products(s) ==
    LET entries == MapIter(s)
        keys == [i \in 1 .. Len(entries) |-> entries[i][1]]
    IN  [st |-> RemoveKeys(s, keys)]

\* remove_product that returns the record without deleting it.
remove_product_no_delete(s, id) ==
    LET found == MapGet(s, id)
    IN  IF found # None
        THEN [st |-> s, kind |-> "Ok", val |-> Some(found[1])]
        ELSE [st |-> s, kind |-> "NotFound", val |-> None]

remove_product(s, id) ==
    LET found == MapGet(s, id)
    IN  IF found # None
        THEN [st |-> MapRemove(s, id), kind |-> "Ok", val |-> Some(found[1])]
        ELSE [st |-> s, kind |-> "NotFound", val |-> None]

(* ------------------------------ actions -------------------------------- *)

Init ==
    /\ storage = EmptyMap
    /\ counter = 0
    /\ now = 0
    /\ ret = [op |-> "init", id |-> None, amount |-> None, kind |-> "Ok"]
    /\ issued = << >>
    /\ removed = {}

\* The platform's clock advances between calls.
Tick ==
    /\ now < MaxTime
    /\ now' = now + 1
    /\ UNCHANGED << storage, counter, ret, issued, removed >>

GetProduct ==
    \E id \in Ids :
        /\ ret' = [op |-> "get_product", id |-> Some(id), amount |-> None,
                   kind |-> get_product(storage, id).kind]
        /\ UNCHANGED << storage, counter, now, issued, removed >>

GetStock ==
    \E id \in Ids :
        /\ ret' = [op |-> "get_stock", id |-> Some(id), amount |-> None,
                   kind |-> get_stock(storage, id).kind]
        /\ UNCHANGED << storage, counter, now, issued, removed >>

AddProduct ==
    \E payload \in ProductPayload, write_ok \in BOOLEAN :
        /\ counter < MaxId
        /\ LET o == add_product(storage, counter, payload, now, write_ok)
           IN  /\ storage' = o.st
               /\ counter' = o.ctr
               /\ ret' = [op |-> "add_product", id |-> None, amount |-> None, kind |-> o.kind]
               /\ issued' = IF o.kind = "Ok" THEN Append(issued, o.val[1].id) ELSE issued
        /\ UNCHANGED << now, removed >>

UpdateProduct ==
    \E id \in Ids, payload \in ProductPayload :
        /\ LET o == update_product(storage, id, payload, now)
           IN  /\ storage' = o.st
               /\ ret' = [op |-> "update_product", id |-> Some(id), amount |-> None, kind |-> o.kind]
        /\ UNCHANGED << counter, now, issued, removed >>

AddQuantity ==
    \E id \in Ids, payload \in StockPayload, overflow_checks \in BOOLEAN :
        /\ LET o == add_quantity(storage, id, payload, now, overflow_checks)
           IN  /\ storage' = o.st
               /\ ret' = [op |-> "add_quantity", id |-> Some(id), amount |-> Some(payload.amount),
                          kind |-> o.kind]
        /\ UNCHANGED << counter, now, issued, removed >>

SearchByCategory ==
    \E category \in Category :
        /\ ret' = [op |-> "search_by_category", id |-> None, amount |-> None, kind |-> "Ok"]
        /\ UNCHANGED << storage, counter, now, issued, removed >>

OffloadQuantity ==
    \E id \in Ids, payload \in StockPayload, overflow_checks \in BOOLEAN :
        /\ LET o == offload_quantity(storage, id, payload, now, overflow_checks)
           IN  /\ storage' = o.st
               /\ ret' = [op |-> "offload_quantity", id |-> Some(id), amount |-> Some(payload.amount),
                          kind |-> o.kind]
        /\ UNCHANGED << counter, now, issued, removed >>

ListAllProducts ==
    /\ ret' = [op |-> "list_all_products", id |-> None, amount |-> None, kind |-> "Ok"]
    /\ UNCHANGED << storage, counter, now, issued, removed >>

ClearAllProducts ==
    /\ storage' = clear_all_products(storage).st
    /\ ret' = [op |-> "clear_all_products", id |-> None, amount |-> None, kind |-> "Ok"]
    /\ UNCHANGED << counter, now, issued, removed >>

RemoveProduct ==
    \E id \in Ids :
        /\ LET o == remove_product(storage, id)
           IN  /\ storage' = o.st
               /\ ret' = [op |-> "remove_product", id |-> Some(id), amount |-> None, kind |-> o.kind]
               /\ removed' = IF o.kind = "Ok" THEN removed \cup {id} ELSE removed
        /\ UNCHANGED << counter, now, issued >>

Next ==
    \/ Tick
    \/ GetProduct
    \/ GetStock
    \/ AddProduct
    \/ UpdateProduct
    \/ AddQuantity
    \/ SearchByCategory
    \/ OffloadQuantity
    \/ ListAllProducts
    \/ ClearAllProducts
    \/ RemoveProduct

Spec == Init /\ [][Next]_vars

(* ------------------------------ claims --------------------------------- *)

Range(f) == { f[i] : i \in DOMAIN f }

\* The payloads validate_product_payload accepts.
ValidProductPayload == { p \in ProductPayload : validate_product_payload(p) = "Ok" }

\* C1: every successful add_product returns an id strictly greater than the
\* id of every earlier successful add_product, whatever other operations
\* (update, stock changes, remove, clear) ran in between: the ids issued so
\* far are strictly increasing, and the id the next add_product returns in
\* this state is greater than all of them.
C1_IdsStrictlyIncreasing ==
    /\ \A i, j \in 1 .. Len(issued) : i < j => issued[i] < issued[j]
    /\ \A p \in ProductPayload :
          LET o == add_product(storage, counter, p, now, TRUE)
          IN  o.kind = "Ok" => \A i \in 1 .. Len(issued) : issued[i] < o.val[1].id

\* A second add_product succeeded after the first record was removed.
C1_Witness ==
    /\ ret.op = "add_product" /\ ret.kind = "Ok"
    /\ Len(issued) = 2
    /\ issued[1] \in removed

\* C2: a clear_all_products call leaves list_all_products empty and the id
\* counter as it was, so an add_product right after it returns an id that
\* no earlier add_product returned.
C2_ClearEmptiesAndKeepsCounter ==
    [][ ret'.op = "clear_all_products" =>
          /\ list_all_products(storage') = << >>
          /\ counter' = counter
          /\ \A p \in ValidProductPayload :
                LET o == add_product(storage', counter', p, now', TRUE)
                IN  o.kind = "Ok" /\ o.val[1].id \notin Range(issued) ]_vars

\* An add_product succeeded after a clear removed the record with id 0 (no
\* remove_product ever succeeded, so only a clear can have removed it).
C2_Witness ==
    /\ ret.op = "add_product" /\ ret.kind = "Ok"
    /\ removed = {}
    /\ Len(issued) = 2
    /\ DOMAIN storage = {issued[2]}

\* C3: offload_quantity with an amount greater than the stored quantity
\* fails with InvalidOperation and leaves the store as it was, and every
\* stored quantity is a u32 (it never underflows below 0).
C3_OffloadTooMuchRejected ==
    /\ \A id \in DOMAIN storage : storage[id].quantity \in U32
    /\ \A id \in DOMAIN storage, payload \in StockPayload, overflow_checks \in BOOLEAN :
          payload.amount > storage[id].quantity =>
              LET o == offload_quantity(storage, id, payload, now, overflow_checks)
              IN  o.kind = "InvalidOperation" /\ o.st = storage

\* An offload_quantity asking for more than the record's non-zero quantity
\* was rejected.
C3_Witness ==
    /\ ret.op = "offload_quantity" /\ ret.kind = "InvalidOperation"
    /\ ret.id[1] \in DOMAIN storage
    /\ storage[ret.id[1]].quantity > 0
    /\ ret.amount[1] > storage[ret.id[1]].quantity

\* C4: a successful add_quantity leaves the stored quantity equal to the
\* old quantity plus the amount as a mathematical integer, also when that
\* sum exceeds the range of the quantity's integer type (no wrap-around).
C4_AddQuantityExact ==
    \A id \in DOMAIN storage, payload \in StockPayload, overflow_checks \in BOOLEAN :
        LET o == add_quantity(storage, id, payload, now, overflow_checks)
        IN  (payload.amount >= 1 /\ o.kind = "Ok") =>
                o.st[id].quantity = storage[id].quantity + payload.amount

\* C5: a call that returns an error (NotFound or InvalidOperation) leaves
\* the product store and the id counter exactly as they were.
C5_ErrorLeavesStateUnchanged ==
    [][ ret'.kind \in ErrorKinds =>
          /\ storage' = storage
          /\ counter' = counter
          /\ issued' = issued ]_vars

\* An add_product was rejected while the store held a record.
C5_Witness ==
    /\ ret.op = "add_product" /\ ret.kind = "InvalidOperation"
    /\ DOMAIN storage # {}
    /\ counter = Len(issued)

\* C6 as stated: update_product on an id that is not in the store fails with
\* NotFound for every payload, valid or not.
C6_Original ==
    \A id \in Ids \ DOMAIN storage, p \in ProductPayload :
        update_product(storage, id, p, now).kind = "NotFound"

\* C6, amended: update_product on an id that is not in the store fails with
\* NotFound when the payload is valid, and with InvalidOperation when the
\* payload's name is blank or its quantity is 0 (the payload is validated
\* before the lookup); either way the store is unchanged.
C6_UpdateAbsentId ==
    \A id \in Ids \ DOMAIN storage, p \in ProductPayload :
        LET o == update_product(storage, id, p, now)
        IN  /\ o.st = storage
            /\ (p.quantity # 0 /\ trim(p.name) # << >>) => o.kind = "NotFound"
            /\ (p.quantity = 0 \/ trim(p.name) = << >>) => o.kind = "InvalidOperation"

\* An update_product on an id that is not in the store returned NotFound
\* while another record was stored.
C6_Witness ==
    /\ ret.op = "update_product" /\ ret.kind = "NotFound"
    /\ ret.id[1] \notin DOMAIN storage
    /\ DOMAIN storage # {}

\* C7 as stated: add_quantity and offload_quantity on an id that is not in
\* the store fail with NotFound for every amount, 0 included.
C7_Original ==
    \A id \in Ids \ DOMAIN storage, payload \in StockPayload, overflow_checks \in BOOLEAN :
        /\ add_quantity(storage, id, payload, now, overflow_checks).kind = "NotFound"
        /\ offload_quantity(storage, id, payload, now, overflow_checks).kind = "NotFound"

\* C7, amended: add_quantity and offload_quantity on an id that is not in
\* the store fail with NotFound when the amount is at least 1, and with
\* InvalidOperation when the amount is 0 (the payload is validated before
\* the lookup); either way the store is unchanged.
C7_StockAbsentId ==
    \A id \in Ids \ DOMAIN storage, payload \in StockPayload, overflow_checks \in BOOLEAN :
        LET a == add_quantity(storage, id, payload, now, overflow_checks)
            o == offload_quantity(storage, id, payload, now, overflow_checks)
            expected == IF payload.amount = 0 THEN "InvalidOperation" ELSE "NotFound"
        IN  /\ a.kind = expected /\ a.st = storage
            /\ o.kind = expected /\ o.st = storage

\* An offload_quantity with a non-zero amount on a removed id returned
\* NotFound.
C7_Witness ==
    /\ ret.op = "offload_quantity" /\ ret.kind = "NotFound"
    /\ ret.amount[1] > 0
    /\ ret.id[1] \in removed

\* C8: a successful update_product stores and returns a record whose name,
\* category and quantity are the payload's, whose id and created_at are
\* those of the record stored before, and whose updated_at is the time of
\* the call.
C8_UpdateStoresPayload ==
    \A id \in Ids, p \in ProductPayload, t \in now .. MaxTime :
        LET o == update_product(storage, id, p, t)
        IN  o.kind = "Ok" =>
                /\ id \in DOMAIN storage
                /\ DOMAIN o.st = DOMAIN storage
                /\ o.val = Some(o.st[id])
                /\ o.st[id].name = p.name
                /\ o.st[id].category = p.category
                /\ o.st[id].quantity = p.quantity
                /\ o.st[id].id = storage[id].id
                /\ o.st[id].created_at = storage[id].created_at
                /\ o.st[id].updated_at = Some(t)

\* An update_product succeeded on a record created at an earlier time.
C8_Witness ==
    /\ ret.op = "update_product" /\ ret.kind = "Ok"
    /\ storage[ret.id[1]].updated_at = Some(now)
    /\ storage[ret.id[1]].created_at < now

\* C9: remove_product on a stored id returns the stored record and deletes
\* it, and an id that a remove_product removed is NotFound for get_product
\* and get_stock in every later state.
C9_RemovedStaysNotFound ==
    /\ \A id \in removed :
          /\ get_product(storage, id).kind = "NotFound"
          /\ get_stock(storage, id).kind = "NotFound"
    /\ \A id \in DOMAIN storage :
          LET o == remove_product(storage, id)
          IN  /\ o.kind = "Ok"
              /\ o.val = Some(storage[id])
              /\ get_product(o.st, id).kind = "NotFound"
              /\ get_stock(o.st, id).kind = "NotFound"

\* get_product on a removed id returned NotFound while the record of another
\* add_product was stored.
C9_Witness ==
    /\ ret.op = "get_product" /\ ret.kind = "NotFound"
    /\ ret.id[1] \in removed
    /\ Len(issued) = 2
    /\ DOMAIN storage = {issued[2]}

\* C10: for every category c, search_by_category(c) is the subsequence of
\* list_all_products() of the records whose category is c, in the same
\* order, and list_all_products() lists every stored record once, in
\* ascending id order.
C10_SearchIsFilteredList ==
    LET all == list_all_products(storage)
    IN  /\ Len(all) = Cardinality(DOMAIN storage)
        /\ \A i \in 1 .. Len(all) :
              all[i].id \in DOMAIN storage /\ all[i] = storage[all[i].id]
        /\ \A i, j \in 1 .. Len(all) : i < j => all[i].id < all[j].id
        /\ \A c \in Category :
              search_by_category(storage, c) =
                  SelectSeq(all, LAMBDA product : product.category = c)

\* A search ran over two records of which only the second is a Cake.
C10_Witness ==
    /\ ret.op = "search_by_category"
    /\ Cardinality(DOMAIN storage) = 2
    /\ Len(search_by_category(storage, "Cake")) = 1
    /\ search_by_category(storage, "Cake")[1] = list_all_products(storage)[2]

\* C11: offload_quantity with 1 <= amount <= quantity succeeds and leaves
\* quantity - amount (the whole quantity leaves 0), and while a record's
\* quantity is 0 every offload_quantity on it fails with InvalidOperation,
\* whatever the amount, and leaves the store as it was.
C11_OffloadWithinStock ==
    \A id \in DOMAIN storage, payload \in StockPayload, overflow_checks \in BOOLEAN :
        LET o == offload_quantity(storage, id, payload, now, overflow_checks)
            q == storage[id].quantity
        IN  /\ (1 <= payload.amount /\ payload.amount <= q) =>
                  /\ o.kind = "Ok"
                  /\ o.st[id].quantity = q - payload.amount
                  /\ o.val = Some(o.st[id])
            /\ q = 0 => (o.kind = "InvalidOperation" /\ o.st = storage)

\* An offload_quantity with a non-zero amount was rejected on a record whose
\* quantity an earlier stock change had brought to 0.
C11_Witness ==
    /\ ret.op = "offload_quantity" /\ ret.kind = "InvalidOperation"
    /\ ret.id[1] \in DOMAIN storage
    /\ storage[ret.id[1]].quantity = 0
    /\ storage[ret.id[1]].updated_at # None
    /\ ret.amount[1] >= 1

\* C12: add_product with a name that is empty after trimming, or with
\* quantity 0, fails with InvalidOperation, stores no record and leaves the
\* id counter as it was, so the next valid add_product returns the same id
\* as if the rejected call had not been made.
C12_AddRejectsInvalidPayload ==
    \A p \in ProductPayload, write_ok \in BOOLEAN :
        (trim(p.name) = << >> \/ p.quantity = 0) =>
            LET o == add_product(storage, counter, p, now, write_ok)
            IN  /\ o.kind = "InvalidOperation"
                /\ o.st = storage
                /\ o.ctr = counter
                /\ \A v \in ValidProductPayload :
                      add_product(o.st, o.ctr, v, now, TRUE).val[1].id = counter

\* An add_product was rejected after the first one had succeeded, and the
\* counter still holds the id that follows the first.
C12_Witness ==
    /\ ret.op = "add_product" /\ ret.kind = "InvalidOperation"
    /\ issued = << 0 >>
    /\ counter = 1

\* C13: every stored record has a name that is non-empty after trimming
\* whitespace.
C13_StoredNamesNonEmpty ==
    \A id \in DOMAIN storage : trim(storage[id].name) # << >>

\* An update_product stored a name that has surrounding whitespace and is
\* non-empty once trimmed.
C13_Witness ==
    /\ ret.op = "update_product" /\ ret.kind = "Ok"
    /\ storage[ret.id[1]].name # trim(storage[ret.id[1]].name)
    /\ trim(storage[ret.id[1]].name) # << >>

\* C14: the id counter starts at 0 and the first id issued is 0; a
\* successful add_product increases the counter by exactly 1 and returns
\* the value it had before; every other step (a failed add_product, any
\* other operation, a query) leaves the counter unchanged, so it never
\* decreases.
C14_CounterSteps ==
    /\ counter = 0
    /\ [](issued # << >> => issued[1] = 0)
    /\ [][ IF issued' # issued
           THEN /\ ret'.op = "add_product" /\ ret'.kind = "Ok"
                /\ issued' = Append(issued, counter)
                /\ counter' = counter + 1
           ELSE counter' = counter ]_vars

\* After two successful add_product calls a clear_all_products ran and the
\* counter still holds 2.
C14_Witness ==
    /\ ret.op = "clear_all_products"
    /\ issued = << 0, 1 >>
    /\ counter = 2
    /\ DOMAIN storage = {}

\* C15: with a clock that never goes backwards, every stored record whose
\* updated_at is present has updated_at >= created_at, and from one state to
\* the next a record's created_at does not change and its updated_at, once
\* present, stays present and does not decrease.
C15_TimestampsMonotonic ==
    /\ [](\A id \in DOMAIN storage :
            storage[id].updated_at # None =>
                storage[id].updated_at[1] >= storage[id].created_at)
    /\ [][ \A id \in (DOMAIN storage) \cap (DOMAIN storage') :
             /\ storage'[id].created_at = storage[id].created_at
             /\ storage[id].updated_at # None =>
                   /\ storage'[id].updated_at # None
                   /\ storage'[id].updated_at[1] >= storage[id].updated_at[1] ]_vars

\* An offload_quantity succeeded at a time later than the record's creation.
C15_Witness ==
    /\ ret.op = "offload_quantity" /\ ret.kind = "Ok"
    /\ storage[ret.id[1]].updated_at # None
    /\ storage[ret.id[1]].updated_at[1] > storage[ret.id[1]].created_at

\* The step is a successful update_product, add_quantity or offload_quantity
\* on id (a step of the clock leaves ret as it was and changes now).
StampingCall(id) ==
    /\ now' = now
    /\ ret'.op \in {"update_product", "add_quantity", "offload_quantity"}
    /\ ret'.kind = "Ok"
    /\ ret'.id = Some(id)

\* C16: a record is created with updated_at absent; every successful
\* update_product, add_quantity or offload_quantity on it sets updated_at to
\* the time of the call; every other step, failed calls included, leaves the
\* record's updated_at as it was.  So updated_at is absent exactly while
\* none of the three has succeeded on the record.
C16_UpdatedAtTracksMutations ==
    [][ \A id \in DOMAIN storage' :
          IF id \notin DOMAIN storage
          THEN storage'[id].updated_at = None
          ELSE IF StampingCall(id)
          THEN storage'[id].updated_at = Some(now)
          ELSE storage'[id].updated_at = storage[id].updated_at ]_vars

\* An add_quantity succeeded on one record while another record has never
\* been changed since its creation.
C16_Witness ==
    /\ ret.op = "add_quantity" /\ ret.kind = "Ok"
    /\ storage[ret.id[1]].updated_at = Some(now)
    /\ \E id \in DOMAIN storage : storage[id].updated_at = None

\* The keys other than id are the same in s and after, with the same records.
OthersUnchanged(s, after, id) ==
    /\ (DOMAIN after) \ {id} = (DOMAIN s) \ {id}
    /\ \A k \in (DOMAIN s) \ {id} : after[k] = s[k]

\* C17: a successful update_product, add_quantity, offload_quantity or
\* remove_product on id leaves every record under another id unchanged and
\* adds or removes no other key; a successful add_product adds exactly one
\* new key and changes no existing record.
C17_OtherRecordsUntouched ==
    /\ \A id \in Ids, p \in ProductPayload :
          LET o == update_product(storage, id, p, now)
          IN  o.kind = "Ok" =>
                  (id \in DOMAIN o.st /\ OthersUnchanged(storage, o.st, id))
    /\ \A id \in Ids, payload \in StockPayload, overflow_checks \in BOOLEAN :
          LET a == add_quantity(storage, id, payload, now, overflow_checks)
              o == offload_quantity(storage, id, payload, now, overflow_checks)
          IN  /\ a.kind = "Ok" =>
                    (id \in DOMAIN a.st /\ OthersUnchanged(storage, a.st, id))
              /\ o.kind = "Ok" =>
                    (id \in DOMAIN o.st /\ OthersUnchanged(storage, o.st, id))
    /\ \A id \in Ids :
          LET o == remove_product(storage, id)
          IN  o.kind = "Ok" =>
                  (id \notin DOMAIN o.st /\ OthersUnchanged(storage, o.st, id))
    /\ \A p \in ProductPayload, write_ok \in BOOLEAN :
          LET o == add_product(storage, counter, p, now, write_ok)
          IN  o.kind = "Ok" =>
                  /\ o.val[1].id \notin DOMAIN storage
                  /\ DOMAIN o.st = (DOMAIN storage) \cup {o.val[1].id}
                  /\ OthersUnchanged(storage, o.st, o.val[1].id)

\* An add_quantity succeeded on one of two stored records and the other one
\* is still as add_product created it.
C17_Witness ==
    /\ ret.op = "add_quantity" /\ ret.kind = "Ok"
    /\ Cardinality(DOMAIN storage) = 2
    /\ storage[ret.id[1]].updated_at # None
    /\ \E k \in (DOMAIN storage) \ {ret.id[1]} : storage[k].updated_at = None

\* C18: every record stored under key k has id = k, and every key in the
\* store is below the id counter, so the id the next add_product allocates
\* is not the key of a stored record.
C18_KeysMatchIdsBelowCounter ==
    \A k \in DOMAIN storage :
        /\ storage[k].id = k
        /\ k < counter

\* Two records are stored, one of them rewritten by update_product, and the
\* counter holds 2.
C18_Witness ==
    /\ ret.op = "update_product" /\ ret.kind = "Ok"
    /\ DOMAIN storage = {0, 1}
    /\ counter = 2

\* C19: for every stored record and every amount a >= 1, add_quantity with a
\* followed at once by offload_quantity with a succeeds in both steps and
\* restores the quantity; id, name, category and created_at are unchanged.
C19_AddThenOffloadRestores ==
    \A id \in DOMAIN storage, payload \in StockPayload, overflow_checks \in BOOLEAN :
        payload.amount >= 1 =>
            LET a == add_quantity(storage, id, payload, now, overflow_checks)
                o == offload_quantity(a.st, id, payload, now, overflow_checks)
            IN  /\ a.kind = "Ok"
                /\ o.kind = "Ok"
                /\ o.st[id].quantity = storage[id].quantity
                /\ o.st[id].id = storage[id].id
                /\ o.st[id].name = storage[id].name
                /\ o.st[id].category = storage[id].category
                /\ o.st[id].created_at = storage[id].created_at

====
